---- MODULE Spec2Model ----
(***************************************************************************)
(* A model of src/src/cpu.rs: the CPU struct (register_a, register_x,      *)
(* status, program_counter, memory), its memory helpers, load / reset /    *)
(* run / load_and_run, and the three instructions LDA, TAX, INX plus BRK.  *)
(*                                                                         *)
(* memory is the array [u8; 0xFFFF].  It is kept as a function from the    *)
(* addresses that hold a non-zero byte to that byte; every other index     *)
(* below MemLen holds 0.  A panic of the Rust code ends the call: mode     *)
(* becomes "panicked" and panic holds the kind of the panic and the        *)
(* run-time values its message is formatted from.                          *)
(***************************************************************************)
EXTENDS Integers, Sequences, FiniteSets, TLC

VARIABLES register_a, register_x, status, program_counter, memory,
          mode, panic, last, entry, retired, loaded, budget

vars == <<register_a, register_x, status, program_counter, memory,
          mode, panic, last, entry, retired, loaded, budget>>

regs == <<register_a, register_x, status, program_counter>>

(***************************************************************************)
(* Program constants.                                                      *)
(***************************************************************************)
\* memory: [u8; 0xFFFF]
MemLen == 65535
\* 0x8000, the base of the copy in load and the value it writes to the
\* reset vector
RomBase == 32768
\* 0xFFFC, the address load writes and reset reads
ResetVector == 65532
\* the number of values of a u8 and of a u16
ByteMod == 256
WordMod == 65536

\* the opcodes of run's match: 0xA9, 0xAA, 0xE8, 0x00
OpLDA == 169
OpTAX == 170
OpINX == 232
OpBRK == 0

\* the masks of update_zero_and_negative_flags: 0b0000_0010, 0b1111_1101,
\* 0b1000_0000, 0b0111_1111
ZeroSet == 2
ZeroClear == 253
NegSet == 128
NegClear == 127
\* 0b0000_1111, the mask of the low byte in mem_write_u16
LoMask == 15

Byte == 0..(ByteMod - 1)

(***************************************************************************)
(* Bounds of the model.                                                    *)
(***************************************************************************)
\* the longest program built from ProgBytes
MaxProgLen == 2
\* how far the long programs' lengths lie around the capacity MemLen - RomBase
Slack == 1
\* the number of calls of load and load_and_run in one behaviour of
\* SpecReload
MaxLoads == 2
\* the number of calls of run in one behaviour of SpecReload (load_and_run is
\* counted with the loads)
MaxRuns == 2
\* the number of assignments to the public fields in one behaviour of Spec
MaxSets == 2
\* the number of calls of the memory helpers in one behaviour of SpecMem
MaxMemCalls == 2

(***************************************************************************)
(* Bit operations on naturals below 2^16, bit by bit.                      *)
(***************************************************************************)
RECURSIVE BitAnd(_, _)
BitAnd(x, y) ==
    IF x = 0 \/ y = 0 THEN 0
    ELSE (x % 2) * (y % 2) + 2 * BitAnd(x \div 2, y \div 2)

RECURSIVE BitOr(_, _)
BitOr(x, y) ==
    IF x = 0 THEN y
    ELSE IF y = 0 THEN x
    ELSE (IF (x % 2) + (y % 2) > 0 THEN 1 ELSE 0) + 2 * BitOr(x \div 2, y \div 2)

(***************************************************************************)
(* Panics.                                                                 *)
(***************************************************************************)
NoPanic == [kind |-> "none", args |-> <<>>]
\* memory[addr as usize] with addr >= len: "index out of bounds: the len is
\* {len} but the index is {index}"
IndexPanic(index) == [kind |-> "index_out_of_bounds", args |-> <<MemLen, index>>]
\* memory[0x8000..end] with end > len: "range end index {end} out of range
\* for slice of length {len}"
SlicePanic(end) == [kind |-> "slice_end_index", args |-> <<end, MemLen>>]
\* todo!(""): "not yet implemented: " followed by the empty message
TodoPanic == [kind |-> "not_yet_implemented", args |-> <<>>]

(***************************************************************************)
(* The memory array.                                                       *)
(***************************************************************************)
ZeroMemory == [a \in {} |-> 0]

Cell(m, addr) == IF addr \in DOMAIN m THEN m[addr] ELSE 0

Store(m, addr, data) ==
    IF data = 0
    THEN [a \in (DOMAIN m) \ {addr} |-> m[a]]
    ELSE [a \in (DOMAIN m) \cup {addr} |-> IF a = addr THEN data ELSE m[a]]

\* fn mem_read(&self, addr: u16) -> u8
mem_read(m, addr) ==
    IF addr < MemLen
    THEN [ok |-> TRUE, val |-> Cell(m, addr), panic |-> NoPanic]
    ELSE [ok |-> FALSE, val |-> 0, panic |-> IndexPanic(addr)]

\* fn mem_write(&mut self, addr: u16, data: u8)
mem_write(m, addr, data) ==
    IF addr < MemLen
    THEN [ok |-> TRUE, mem |-> Store(m, addr, data), panic |-> NoPanic]
    ELSE [ok |-> FALSE, mem |-> m, panic |-> IndexPanic(addr)]

\* fn mem_read_u16(&mut self, pos: u16) -> u16.  pos + 1 is evaluated only
\* after mem_read(pos) returned, so pos < MemLen < 0xFFFF and the u16
\* addition does not overflow.
mem_read_u16(m, pos) ==
    LET lo == mem_read(m, pos)
    IN  IF ~lo.ok THEN lo
        ELSE LET hi == mem_read(m, pos + 1)
             IN  IF ~hi.ok THEN hi
                 ELSE [ok |-> TRUE,
                       val |-> BitOr((hi.val * ByteMod) % WordMod, lo.val),
                       panic |-> NoPanic]

\* the low byte mem_write_u16 stores
LoByte(data) == BitAnd(data, LoMask) % ByteMod

\* the high byte mem_write_u16 stores
HiByte(data) == (data \div ByteMod) % ByteMod

\* fn mem_write_u16(&mut self, pos: u16, data: u16).  The first mem_write
\* has stored its byte when the second one panics.
mem_write_u16(m, pos, data) ==
    LET first == mem_write(m, pos, LoByte(data))
    IN  IF ~first.ok THEN first
        ELSE mem_write(first.mem, pos + 1, HiByte(data))

(***************************************************************************)
(* The processor core.                                                     *)
(***************************************************************************)
\* update_zero_and_negative_flags without the branch that clears Zero
update_flags_zero_never_cleared(st, register) ==
    LET z == IF register = 0 THEN BitOr(st, ZeroSet) ELSE st
    IN  IF BitAnd(register, NegSet) # 0 THEN BitOr(z, NegSet) ELSE BitAnd(z, NegClear)

\* update_zero_and_negative_flags without the branch that clears Negative
update_flags_negative_never_cleared(st, register) ==
    LET z == IF register = 0 THEN BitOr(st, ZeroSet) ELSE BitAnd(st, ZeroClear)
    IN  IF BitAnd(register, NegSet) # 0 THEN BitOr(z, NegSet) ELSE z

\* update_zero_and_negative_flags assigning the masks instead of combining
\* them with the status
update_flags_overwriting(st, register) ==
    LET z == IF register = 0 THEN ZeroSet ELSE 0
    IN  IF BitAnd(register, NegSet) # 0 THEN BitOr(z, NegSet) ELSE z

\* fn update_zero_and_negative_flags(&mut self, register: u8): the new status
update_zero_and_negative_flags(st, register) ==
    LET z == IF register = 0 THEN BitOr(st, ZeroSet) ELSE BitAnd(st, ZeroClear)
    IN  IF BitAnd(register, NegSet) # 0 THEN BitOr(z, NegSet) ELSE BitAnd(z, NegClear)

\* A program, the Vec<u8> given to load, is kept like the memory: its
\* length, and its non-zero bytes by their offset.
ByteAt(program, i) == IF i \in DOMAIN program.bytes THEN program.bytes[i] ELSE 0

\* copy_from_slice to the range that begins one byte after 0x8000
copy_from_slice_shifted(m, program) ==
    LET dst == (RomBase + 1)..(RomBase + program.len)
        nonzero == {RomBase + 1 + i : i \in DOMAIN program.bytes}
    IN  [a \in ((DOMAIN m) \ dst) \cup nonzero |->
            IF a \in dst THEN program.bytes[a - RomBase - 1] ELSE m[a]]

\* self.memory[0x8000..(0x8000 + program.len())].copy_from_slice(&program)
copy_from_slice(m, program) ==
    LET dst == RomBase..(RomBase + program.len - 1)
        nonzero == {RomBase + i : i \in DOMAIN program.bytes}
    IN  [a \in ((DOMAIN m) \ dst) \cup nonzero |->
            IF a \in dst THEN program.bytes[a - RomBase] ELSE m[a]]

\* load writing the reset vector before it takes the slice
load_vector_first(m, program) ==
    IF RomBase + program.len > MemLen
    THEN [ok |-> FALSE, mem |-> mem_write_u16(m, ResetVector, RomBase).mem,
          panic |-> SlicePanic(RomBase + program.len)]
    ELSE mem_write_u16(copy_from_slice(m, program), ResetVector, RomBase)

\* fn load(&mut self, program: Vec<u8>): the slice index is checked before
\* anything is copied
load(m, program) ==
    IF RomBase + program.len > MemLen
    THEN [ok |-> FALSE, mem |-> m, panic |-> SlicePanic(RomBase + program.len)]
    ELSE mem_write_u16(copy_from_slice(m, program), ResetVector, RomBase)

(***************************************************************************)
(* The inputs of the model.                                                *)
(***************************************************************************)
\* a byte that is no opcode of run's match
OpUnknown == 2

ProgBytes == {OpBRK, OpLDA, OpTAX, OpINX, OpUnknown}

\* the program vec![seq[1], ..., seq[Len(seq)]]
Vec(seq) ==
    [len |-> Len(seq),
     bytes |-> [i \in {j \in 0..(Len(seq) - 1) : seq[j + 1] # 0} |-> seq[i + 1]]]

NoProgram == Vec(<<>>)

ShortPrograms == {Vec(seq) : seq \in UNION {[1..n -> ProgBytes] : n \in 0..MaxProgLen}}

\* the programs of the tests
TestPrograms ==
    {Vec(<<OpLDA, 5, OpBRK>>), Vec(<<OpLDA, 0, OpBRK>>), Vec(<<OpTAX, OpBRK>>),
     Vec(<<OpLDA, 192, OpTAX, OpINX, OpBRK>>), Vec(<<OpINX, OpINX, OpBRK>>)}

\* the number of bytes between the base of load's copy and the end of memory
RomCapacity == MemLen - RomBase

\* a program of n bytes, all 0 but for the byte b at the offsets that load
\* copies to the address before the reset vector and beyond
LongProgram(n, b) ==
    [len |-> n, bytes |-> [i \in (ResetVector - 1 - RomBase)..(n - 1) |-> b]]

LongPrograms ==
    {LongProgram(n, b) : n \in (RomCapacity - Slack)..(RomCapacity + Slack),
                         b \in {OpINX, OpLDA}}

\* an LDA whose operand is the byte of the 0x00 arm, with an INX behind it
ZeroOperandProgram == Vec(<<OpLDA, OpBRK, OpINX, OpBRK>>)

Programs ==
    ShortPrograms \cup TestPrograms \cup LongPrograms \cup {ZeroOperandProgram}

\* values a caller assigns to the public fields, beside the 0 that new and
\* reset leave in them
RegValues == {10, NegClear, ByteMod - 1}
StatusValues == {ByteMod - 1 - ZeroSet - NegSet, ByteMod - 1}
CounterValues == {MemLen - 1, MemLen}

\* addresses and data of the callers of the memory helpers
Addresses == {0, 1, RomBase, ResetVector, MemLen - 2, MemLen - 1, MemLen}
Words == {0, 15, 16, 240, 255, 256, 4660, RomBase, WordMod - 1}

(***************************************************************************)
(* The state after CPU::new().  Beside the fields of the struct:           *)
(*   mode, panic  whether a call is running, has returned or has panicked  *)
(*   last         the last call of a public operation and its arguments    *)
(*   entry        the registers when the loop of run was last entered      *)
(*   retired      the instruction the last iteration of the loop executed  *)
(*   loaded       load has returned, and no call of mem_write or           *)
(*                mem_write_u16 from outside was made since                *)
(*   budget       the calls still to be made                               *)
(***************************************************************************)
Called(op, program, pos, data, ret) ==
    [op |-> op, program |-> program, pos |-> pos, data |-> data, ret |-> ret]

NoCall == Called("new", NoProgram, 0, 0, 0)

Registers(a, x, st, pc) == [a |-> a, x |-> x, status |-> st, pc |-> pc]

NoEntry == Registers(0, 0, 0, 0)

New ==
    /\ register_a = 0
    /\ register_x = 0
    /\ status = 0
    /\ program_counter = 0
    /\ memory = ZeroMemory
    /\ mode = "idle"
    /\ panic = NoPanic
    /\ last = NoCall
    /\ entry = NoEntry
    /\ retired = "none"
    /\ loaded = FALSE

\* budget counts the calls still to be made: of load and load_and_run, of
\* run, of the assignments to the public fields, and of the memory helpers
Budget(loads, runs, sets, mems) ==
    [loads |-> loads, runs |-> runs, sets |-> sets, mems |-> mems]

\* a public operation is called on a core that is not running and has not
\* panicked
CanCall == mode = "idle"

\* a call whose body panicked with p
Panicked(p) == mode' = "panicked" /\ panic' = p

Returned == mode' = "idle" /\ panic' = NoPanic

(***************************************************************************)
(* The memory helpers, called from outside.                                *)
(***************************************************************************)
MemRead(addr) ==
    LET r == mem_read(memory, addr)
    IN  /\ CanCall
        /\ budget.mems > 0
        /\ budget' = [budget EXCEPT !.mems = @ - 1]
        /\ last' = Called("mem_read", NoProgram, addr, 0, r.val)
        /\ IF r.ok THEN Returned ELSE Panicked(r.panic)
        /\ entry' = NoEntry
        /\ retired' = "none"
        /\ UNCHANGED <<regs, memory, loaded>>

MemWrite(addr, data) ==
    LET r == mem_write(memory, addr, data)
    IN  /\ CanCall
        /\ budget.mems > 0
        /\ budget' = [budget EXCEPT !.mems = @ - 1]
        /\ last' = Called("mem_write", NoProgram, addr, data, 0)
        /\ memory' = r.mem
        /\ IF r.ok THEN Returned ELSE Panicked(r.panic)
        /\ entry' = NoEntry
        /\ retired' = "none"
        /\ loaded' = FALSE
        /\ UNCHANGED regs

MemReadU16(pos) ==
    LET r == mem_read_u16(memory, pos)
    IN  /\ CanCall
        /\ budget.mems > 0
        /\ budget' = [budget EXCEPT !.mems = @ - 1]
        /\ last' = Called("mem_read_u16", NoProgram, pos, 0, r.val)
        /\ IF r.ok THEN Returned ELSE Panicked(r.panic)
        /\ entry' = NoEntry
        /\ retired' = "none"
        /\ UNCHANGED <<regs, memory, loaded>>

MemWriteU16(pos, data) ==
    LET r == mem_write_u16(memory, pos, data)
    IN  /\ CanCall
        /\ budget.mems > 0
        /\ budget' = [budget EXCEPT !.mems = @ - 1]
        /\ last' = Called("mem_write_u16", NoProgram, pos, data, 0)
        /\ memory' = r.mem
        /\ IF r.ok THEN Returned ELSE Panicked(r.panic)
        /\ entry' = NoEntry
        /\ retired' = "none"
        /\ loaded' = FALSE
        /\ UNCHANGED regs

(***************************************************************************)
(* load, reset, run, load_and_run and the public fields.                   *)
(***************************************************************************)
\* an assignment to a public field, by the owner of the core
Assigned(v) ==
    /\ CanCall
    /\ budget.sets > 0
    /\ budget' = [budget EXCEPT !.sets = @ - 1]
    /\ last' = Called("set", NoProgram, 0, v, 0)
    /\ entry' = NoEntry
    /\ retired' = "none"
    /\ UNCHANGED <<memory, mode, panic, loaded>>

\* cpu.register_a = v
SetRegisterA(v) ==
    /\ Assigned(v)
    /\ register_a' = v
    /\ UNCHANGED <<register_x, status, program_counter>>

\* cpu.register_x = v
SetRegisterX(v) ==
    /\ Assigned(v)
    /\ register_x' = v
    /\ UNCHANGED <<register_a, status, program_counter>>

\* cpu.status = v
SetStatus(v) ==
    /\ Assigned(v)
    /\ status' = v
    /\ UNCHANGED <<register_a, register_x, program_counter>>

\* cpu.program_counter = v
SetProgramCounter(v) ==
    /\ Assigned(v)
    /\ program_counter' = v
    /\ UNCHANGED <<register_a, register_x, status>>

\* load that goes on to reset the registers from the vector it wrote
Load_resetting(program) ==
    LET r == load(memory, program)
    IN  /\ CanCall
        /\ budget.loads > 0
        /\ budget' = [budget EXCEPT !.loads = @ - 1]
        /\ last' = Called("load", program, 0, 0, 0)
        /\ memory' = r.mem
        /\ IF r.ok THEN Returned ELSE Panicked(r.panic)
        /\ loaded' = r.ok
        /\ entry' = NoEntry
        /\ retired' = "none"
        /\ IF r.ok
           THEN /\ register_a' = 0
                /\ register_x' = 0
                /\ status' = 0
                /\ program_counter' = mem_read_u16(r.mem, ResetVector).val
           ELSE UNCHANGED regs

\* pub fn load(&mut self, program: Vec<u8>)
Load(program) ==
    LET r == load(memory, program)
    IN  /\ CanCall
        /\ budget.loads > 0
        /\ budget' = [budget EXCEPT !.loads = @ - 1]
        /\ last' = Called("load", program, 0, 0, 0)
        /\ memory' = r.mem
        /\ IF r.ok THEN Returned ELSE Panicked(r.panic)
        /\ loaded' = r.ok
        /\ entry' = NoEntry
        /\ retired' = "none"
        /\ UNCHANGED regs

\* reset without self.status = 0
ResetFrom_keeping_status(m) ==
    /\ register_x' = 0
    /\ register_a' = 0
    /\ status' = status
    /\ program_counter' = mem_read_u16(m, ResetVector).val

\* the assignments of reset, given the memory it reads the vector from.
\* ResetVector + 1 < MemLen: the read does not panic.
ResetFrom(m) ==
    /\ register_x' = 0
    /\ register_a' = 0
    /\ status' = 0
    /\ program_counter' = mem_read_u16(m, ResetVector).val

\* pub fn reset(&mut self)
Reset ==
    /\ CanCall
    /\ last' = Called("reset", NoProgram, 0, 0, 0)
    /\ ResetFrom(memory)
    /\ Returned
    /\ entry' = NoEntry
    /\ retired' = "none"
    /\ UNCHANGED <<memory, loaded, budget>>

\* pub fn run(&mut self): the call; the iterations of its loop follow
Run ==
    /\ CanCall
    /\ budget.runs > 0
    /\ budget' = [budget EXCEPT !.runs = @ - 1]
    /\ last' = Called("run", NoProgram, 0, 0, 0)
    /\ entry' = Registers(register_a, register_x, status, program_counter)
    /\ mode' = "running"
    /\ retired' = "none"
    /\ UNCHANGED <<regs, memory, panic, loaded>>

\* load_and_run that calls run after load, without the reset between them
LoadAndRun_without_reset(program) ==
    LET r == load(memory, program)
    IN  /\ CanCall
        /\ budget.loads > 0
        /\ budget' = [budget EXCEPT !.loads = @ - 1]
        /\ last' = Called("load_and_run", program, 0, 0, 0)
        /\ memory' = r.mem
        /\ loaded' = r.ok
        /\ retired' = "none"
        /\ UNCHANGED regs
        /\ IF r.ok
           THEN /\ entry' = Registers(register_a, register_x, status,
                                      program_counter)
                /\ mode' = "running"
                /\ panic' = NoPanic
           ELSE /\ Panicked(r.panic)
                /\ entry' = NoEntry

\* pub fn load_and_run(&mut self, program: Vec<u8>): load, reset, and the
\* call of run
LoadAndRun(program) ==
    LET r == load(memory, program)
    IN  /\ CanCall
        /\ budget.loads > 0
        /\ budget' = [budget EXCEPT !.loads = @ - 1]
        /\ last' = Called("load_and_run", program, 0, 0, 0)
        /\ memory' = r.mem
        /\ loaded' = r.ok
        /\ retired' = "none"
        /\ IF r.ok
           THEN /\ ResetFrom(r.mem)
                /\ entry' = Registers(0, 0, 0, mem_read_u16(r.mem, ResetVector).val)
                /\ mode' = "running"
                /\ panic' = NoPanic
           ELSE /\ Panicked(r.panic)
                /\ entry' = NoEntry
                /\ UNCHANGED regs

(***************************************************************************)
(* One iteration of run's loop.                                            *)
(***************************************************************************)
\* let opscode = self.mem_read(self.program_counter)
Fetched == mem_read(memory, program_counter)

Running(opscode) == mode = "running" /\ Fetched.ok /\ Fetched.val = opscode

\* the fetch of the opcode indexes past the end of memory
FetchPanic ==
    /\ mode = "running"
    /\ ~Fetched.ok
    /\ Panicked(Fetched.panic)
    /\ UNCHANGED <<regs, memory, last, entry, retired, loaded, budget>>

\* 0xA9 with the operand read before the program counter is advanced
ExecLDA_operand_at_opcode ==
    LET param == mem_read(memory, program_counter)
    IN  /\ Running(OpLDA)
        /\ program_counter' = program_counter + 2
        /\ register_a' = param.val
        /\ status' = update_zero_and_negative_flags(status, param.val)
        /\ retired' = "LDA"
        /\ UNCHANGED <<mode, panic>>
        /\ UNCHANGED <<register_x, memory, last, entry, loaded, budget>>

\* 0xA9 without the += 1 that follows the read of the operand
ExecLDA_operand_not_skipped ==
    LET param == mem_read(memory, program_counter + 1)
    IN  /\ Running(OpLDA)
        /\ program_counter' = program_counter + 1
        /\ IF param.ok
           THEN /\ register_a' = param.val
                /\ status' = update_zero_and_negative_flags(status, param.val)
                /\ retired' = "LDA"
                /\ UNCHANGED <<mode, panic>>
           ELSE /\ Panicked(param.panic)
                /\ UNCHANGED <<register_a, status, retired>>
        /\ UNCHANGED <<register_x, memory, last, entry, loaded, budget>>

\* 0xA9: the operand is fetched at the advanced program counter, then lda.
\* The program counter is below MemLen after a fetch that did not panic, so
\* that neither += 1 overflows.
ExecLDA ==
    LET param == mem_read(memory, program_counter + 1)
    IN  /\ Running(OpLDA)
        /\ IF param.ok
           THEN /\ program_counter' = program_counter + 2
                /\ register_a' = param.val
                /\ status' = update_zero_and_negative_flags(status, param.val)
                /\ retired' = "LDA"
                /\ UNCHANGED <<mode, panic>>
           ELSE /\ program_counter' = program_counter + 1
                /\ Panicked(param.panic)
                /\ UNCHANGED <<register_a, status, retired>>
        /\ UNCHANGED <<register_x, memory, last, entry, loaded, budget>>

\* tax updating the flags from register_x as it was before the transfer
ExecTAX_flags_of_old_x ==
    /\ Running(OpTAX)
    /\ program_counter' = program_counter + 1
    /\ register_x' = register_a
    /\ status' = update_zero_and_negative_flags(status, register_x)
    /\ retired' = "TAX"
    /\ UNCHANGED <<register_a, memory, mode, panic, last, entry, loaded, budget>>

\* tax with the transfer in the other direction
ExecTAX_reversed ==
    /\ Running(OpTAX)
    /\ program_counter' = program_counter + 1
    /\ register_a' = register_x
    /\ status' = update_zero_and_negative_flags(status, register_x)
    /\ retired' = "TAX"
    /\ UNCHANGED <<register_x, memory, mode, panic, last, entry, loaded, budget>>

\* 0xAA => self.tax()
ExecTAX ==
    /\ Running(OpTAX)
    /\ program_counter' = program_counter + 1
    /\ register_x' = register_a
    /\ status' = update_zero_and_negative_flags(status, register_a)
    /\ retired' = "TAX"
    /\ UNCHANGED <<register_a, memory, mode, panic, last, entry, loaded, budget>>

\* inx that increments the byte of memory at the address register_x
ExecINX_incrementing_memory ==
    LET v == (Cell(memory, register_x) + 1) % ByteMod
    IN  /\ Running(OpINX)
        /\ program_counter' = program_counter + 1
        /\ memory' = Store(memory, register_x, v)
        /\ status' = update_zero_and_negative_flags(status, v)
        /\ retired' = "INX"
        /\ UNCHANGED <<register_a, register_x, mode, panic, last, entry, loaded,
                       budget>>

\* inx that takes the program counter back to its own opcode
ExecINX_refetching ==
    /\ Running(OpINX)
    /\ program_counter' = program_counter
    /\ register_x' = (register_x + 1) % ByteMod
    /\ status' = update_zero_and_negative_flags(status, (register_x + 1) % ByteMod)
    /\ retired' = "INX"
    /\ UNCHANGED <<register_a, memory, mode, panic, last, entry, loaded, budget>>

\* inx with an addition that stops at 0xFF instead of wrapping
ExecINX_saturating ==
    LET x == IF register_x = ByteMod - 1 THEN register_x ELSE register_x + 1
    IN  /\ Running(OpINX)
        /\ program_counter' = program_counter + 1
        /\ register_x' = x
        /\ status' = update_zero_and_negative_flags(status, x)
        /\ retired' = "INX"
        /\ UNCHANGED <<register_a, memory, mode, panic, last, entry, loaded, budget>>

\* 0xE8 => self.inx()
ExecINX ==
    LET x == (register_x + 1) % ByteMod
    IN  /\ Running(OpINX)
        /\ program_counter' = program_counter + 1
        /\ register_x' = x
        /\ status' = update_zero_and_negative_flags(status, x)
        /\ retired' = "INX"
        /\ UNCHANGED <<register_a, memory, mode, panic, last, entry, loaded, budget>>

\* 0x00 returning with the program counter at the 0x00
ExecBRK_not_advancing ==
    /\ Running(OpBRK)
    /\ program_counter' = program_counter
    /\ retired' = "BRK"
    /\ Returned
    /\ UNCHANGED <<register_a, register_x, status, memory, last, entry, loaded, budget>>

\* 0x00 => return
ExecBRK ==
    /\ Running(OpBRK)
    /\ program_counter' = program_counter + 1
    /\ retired' = "BRK"
    /\ Returned
    /\ UNCHANGED <<register_a, register_x, status, memory, last, entry, loaded, budget>>

\* _ => todo!("")
ExecTodo ==
    /\ mode = "running"
    /\ Fetched.ok
    /\ Fetched.val \notin {OpLDA, OpTAX, OpINX, OpBRK}
    /\ program_counter' = program_counter + 1
    /\ Panicked(TodoPanic)
    /\ UNCHANGED <<register_a, register_x, status, memory, last, entry, retired,
                   loaded, budget>>

Step == FetchPanic \/ ExecLDA \/ ExecTAX \/ ExecINX \/ ExecBRK \/ ExecTodo

(***************************************************************************)
(* Spec: a new core, one load or load_and_run of any program of Programs,  *)
(* one call of run, MaxSets assignments to the public fields, and any      *)
(* number of resets, in any order.                                         *)
(***************************************************************************)
Init == New /\ budget = Budget(1, 1, MaxSets, 0)

Next ==
    \/ \E v \in RegValues : SetRegisterA(v)
    \/ \E v \in RegValues : SetRegisterX(v)
    \/ \E v \in StatusValues : SetStatus(v)
    \/ \E v \in CounterValues : SetProgramCounter(v)
    \/ \E program \in Programs : Load(program)
    \/ Reset
    \/ Run
    \/ \E program \in Programs : LoadAndRun(program)
    \/ FetchPanic
    \/ ExecLDA
    \/ ExecTAX
    \/ ExecINX
    \/ ExecBRK
    \/ ExecTodo

Spec == Init /\ [][Next]_vars

\* run's loop does not stop between two iterations
SpecFair == Spec /\ WF_vars(Step)

(***************************************************************************)
(* SpecReload: a core that is loaded again and again, MaxLoads times, and  *)
(* driven through its methods alone.  The program counter is then below    *)
(* MemLen at every fetch (FetchInRange), so that no iteration is left out. *)
(***************************************************************************)
ReloadPrograms ==
    TestPrograms \cup LongPrograms \cup {Vec(<<>>), Vec(<<OpUnknown>>)}

InitReload == New /\ budget = Budget(MaxLoads, MaxRuns, 0, 0)

NextReload ==
    \/ \E program \in ReloadPrograms : Load(program)
    \/ Reset
    \/ Run
    \/ \E program \in ReloadPrograms : LoadAndRun(program)
    \/ ExecLDA
    \/ ExecTAX
    \/ ExecINX
    \/ ExecBRK
    \/ ExecTodo

SpecReload == InitReload /\ [][NextReload]_vars

FetchInRange == mode = "running" => Fetched.ok

(***************************************************************************)
(* SpecBytes: load_and_run on a new core, of the programs of the tests     *)
(* with every byte in the place of their operand.                          *)
(***************************************************************************)
BytePrograms ==
    {Vec(<<OpLDA, b, OpBRK>>) : b \in Byte}
        \cup {Vec(<<OpLDA, b, OpTAX, OpINX, OpBRK>>) : b \in Byte}
        \cup {Vec(<<OpINX, OpLDA, b, OpBRK>>) : b \in Byte}

InitBytes == New /\ budget = Budget(1, 0, 0, 0)

NextBytes ==
    \/ \E program \in BytePrograms : LoadAndRun(program)
    \/ ExecLDA
    \/ ExecTAX
    \/ ExecINX
    \/ ExecBRK

SpecBytes == InitBytes /\ [][NextBytes]_vars

(***************************************************************************)
(* SpecMem: the memory helpers alone, on a new core.                       *)
(***************************************************************************)
ByteData == {w % ByteMod : w \in Words}

InitMem == New /\ budget = Budget(0, 0, 0, MaxMemCalls)

NextMem ==
    \/ \E addr \in Addresses : MemRead(addr)
    \/ \E addr \in Addresses, data \in ByteData : MemWrite(addr, data)
    \/ \E pos \in Addresses : MemReadU16(pos)
    \/ \E pos \in Addresses, data \in Words : MemWriteU16(pos, data)

SpecMem == InitMem /\ [][NextMem]_vars

(***************************************************************************)
(* The properties.                                                         *)
(***************************************************************************)
ZeroFlag(st) == BitAnd(st, ZeroSet) # 0

NegativeFlag(st) == BitAnd(st, NegSet) # 0

\* the bits of a status byte other than Zero and Negative
ReservedBits(st) == BitAnd(st, BitAnd(ZeroClear, NegClear))

\* the flags are those of the byte v
FlagsOf(st, v) == (ZeroFlag(st) <=> v = 0) /\ (NegativeFlag(st) <=> v >= NegSet)

\* The address of the 0x00 that fetching from pc comes to through LDA, TAX
\* and INX instructions alone, and -1 when it comes to another byte or to
\* the end of memory first.
RECURSIVE BrkFrom(_, _)
BrkFrom(m, pc) ==
    IF pc >= MemLen THEN -1
    ELSE LET op == Cell(m, pc)
         IN  IF op = OpBRK THEN pc
             ELSE IF op = OpLDA
                  THEN (IF pc + 1 >= MemLen THEN -1 ELSE BrkFrom(m, pc + 2))
             ELSE IF op \in {OpTAX, OpINX} THEN BrkFrom(m, pc + 1)
             ELSE -1

\* the last call has entered the loop of run
LoopEntered == last.op = "run" \/ (last.op = "load_and_run" /\ loaded)

\* the loop of run was entered at the address load wrote to the reset vector
EnteredAtReset ==
    /\ LoopEntered
    /\ loaded
    /\ entry.pc = RomBase

\* C1: after mem_write_u16(pos, data) has returned, so that pos and pos + 1
\* are both in the memory, mem_read_u16(pos) returns data: the low byte of
\* data is at pos and its high byte at pos + 1.
C1_RoundTrip16 ==
    (last.op = "mem_write_u16" /\ mode = "idle") =>
        /\ mem_read_u16(memory, last.pos).ok
        /\ mem_read_u16(memory, last.pos).val = last.data
        /\ Cell(memory, last.pos) = last.data % ByteMod
        /\ Cell(memory, last.pos + 1) = last.data \div ByteMod

\* C2: a run entered at the reset program counter of a loaded program, from
\* where fetching comes to a 0x00 through LDA, TAX and INX alone, returns,
\* and when it has returned the program counter is the address of that 0x00
\* plus one.
C2_HaltTerminates ==
    /\ (mode = "running" /\ EnteredAtReset /\ BrkFrom(memory, entry.pc) >= 0)
          ~> (mode = "idle" /\ EnteredAtReset /\ retired = "BRK")
    /\ [](mode = "idle" /\ EnteredAtReset /\ BrkFrom(memory, entry.pc) >= 0
             => /\ retired = "BRK"
                /\ program_counter = BrkFrom(memory, entry.pc) + 1)

\* a run of a loaded program has returned after at least one instruction
\* before the 0x00
C2_Witness ==
    /\ mode = "idle"
    /\ EnteredAtReset
    /\ retired = "BRK"
    /\ BrkFrom(memory, entry.pc) > RomBase + 1
    /\ program_counter = BrkFrom(memory, entry.pc) + 1

\* C3: once load has returned, every reset leaves register_a, register_x and
\* status 0 and the program counter 0x8000, whatever run and the assignments
\* to the registers did before.
C3_ResetAfterLoad ==
    (last.op = "reset" /\ loaded) =>
        /\ register_a = 0
        /\ register_x = 0
        /\ status = 0
        /\ program_counter = RomBase

\* a reset after a load, a run and two assignments
C3_Witness ==
    /\ last.op = "reset"
    /\ loaded
    /\ budget.runs < MaxRuns
    /\ budget.sets + 2 <= MaxSets
    /\ program_counter = RomBase

\* C4: when LDA, TAX or INX has retired, Zero is set iff the register it
\* wrote (register_a for LDA, register_x for TAX and INX) is 0, and Negative
\* iff bit 7 of that register is set.
C4_FlagsFollowResult ==
    /\ retired = "LDA" => FlagsOf(status, register_a)
    /\ retired \in {"TAX", "INX"} => FlagsOf(status, register_x)

\* INX has wrapped register_x to 0 in a run entered with Negative set
C4_Witness ==
    /\ retired = "INX"
    /\ register_x = 0
    /\ NegativeFlag(entry.status)
    /\ ZeroFlag(status)
    /\ ~NegativeFlag(status)

\* C5: during and after run, the bits 0 and 2 to 6 of status are what they
\* were when the loop of run was entered.
C5_ReservedBitsKept ==
    LoopEntered => ReservedBits(status) = ReservedBits(entry.status)

\* a run entered with every reserved bit set has changed the flags
C5_Witness ==
    /\ last.op = "run"
    /\ retired \in {"LDA", "TAX", "INX"}
    /\ ReservedBits(entry.status) = BitAnd(ZeroClear, NegClear)
    /\ status # entry.status
    /\ ReservedBits(status) = ReservedBits(entry.status)

\* the byte whose fetch made run panic with "not yet implemented", and the
\* address it was fetched from
FaultAddress == program_counter - 1

FaultOpcode == Cell(memory, FaultAddress)

\* C6: when run fetches a byte that is none of 0xA9, 0xAA, 0xE8, 0x00 it
\* stops at once with an error that differs from a return and that names the
\* byte and the program counter at fault.
C6_UnknownOpcodeError ==
    (mode = "panicked" /\ panic = TodoPanic) =>
        /\ \E i \in DOMAIN panic.args : panic.args[i] = FaultOpcode
        /\ \E i \in DOMAIN panic.args :
               panic.args[i] \in {FaultAddress, program_counter}

\* a call of load: the step from an idle core to the state after load
LoadStep ==
    /\ mode = "idle"
    /\ last'.op = "load"
    /\ budget'.loads < budget.loads

\* C7: load of a program longer than the bytes between 0x8000 and the end of
\* memory panics, and has changed no byte of the memory and no register.
C7_LoadOverrunAtomic ==
    [][LoadStep /\ last'.program.len > RomCapacity =>
           /\ mode' = "panicked"
           /\ panic'.kind = "slice_end_index"
           /\ memory' = memory
           /\ regs' = regs]_vars

\* load has panicked on a memory that an earlier load had written
C7_Witness ==
    /\ mode = "panicked"
    /\ last.op = "load"
    /\ last.program.len > RomCapacity
    /\ Cell(memory, RomBase) # 0
    /\ Cell(memory, ResetVector + 1) # 0

\* the offsets of a program that load copies to the reset vector
VectorOffsets == {ResetVector - RomBase, ResetVector + 1 - RomBase}

\* C8 as claimed: after load has returned, every byte of the program is in
\* the memory at 0x8000 plus its offset.
C8_LoadPlacesImage ==
    (last.op = "load" /\ mode = "idle") =>
        \A i \in 0..(last.program.len - 1) :
            Cell(memory, RomBase + i) = ByteAt(last.program, i)

\* C8, amended: after load has returned, every byte of the program whose
\* offset is not one of the two of the reset vector is in the memory at
\* 0x8000 plus its offset, and the reset vector holds 0x00, 0x80.
C8_LoadPlacesImageButVector ==
    (last.op = "load" /\ mode = "idle") =>
        /\ \A i \in (0..(last.program.len - 1)) \ VectorOffsets :
               Cell(memory, RomBase + i) = ByteAt(last.program, i)
        /\ Cell(memory, ResetVector) = RomBase % ByteMod
        /\ Cell(memory, ResetVector + 1) = RomBase \div ByteMod

\* load has returned for a program that has non-zero bytes at the offsets of
\* the reset vector and after it
C8_Witness ==
    /\ last.op = "load"
    /\ mode = "idle"
    /\ last.program.len > ResetVector + 2 - RomBase
    /\ ByteAt(last.program, ResetVector - RomBase) # 0
    /\ Cell(memory, ResetVector + 2) = ByteAt(last.program, ResetVector + 2 - RomBase)
    /\ Cell(memory, ResetVector + 2) # 0

\* an iteration of the loop that retires LDA
LdaStep ==
    /\ mode = "running"
    /\ Fetched.val = OpLDA
    /\ retired' = "LDA"
    /\ program_counter' = program_counter + 2

\* C9: LDA with the operand b makes register_a b, leaves register_x, and
\* sets Zero iff b = 0 and Negative iff b >= 0x80; load_and_run of
\* [0xA9, b, 0x00] on a new core returns with register_a = b and these flags.
C9_LdaImmediate ==
    /\ [][LdaStep =>
             /\ register_a' = Cell(memory, program_counter + 1)
             /\ register_x' = register_x
             /\ FlagsOf(status', Cell(memory, program_counter + 1))]_vars
    /\ [](\A b \in Byte :
             (/\ last.op = "load_and_run"
              /\ last.program = Vec(<<OpLDA, b, OpBRK>>)
              /\ mode = "idle")
                 => /\ register_a = b
                    /\ register_x = 0
                    /\ FlagsOf(status, b))

\* load_and_run of [0xA9, 0x80, 0x00] has returned with Negative set
C9_Witness ==
    /\ last.op = "load_and_run"
    /\ last.program = Vec(<<OpLDA, NegSet, OpBRK>>)
    /\ mode = "idle"
    /\ register_a = NegSet
    /\ NegativeFlag(status)
    /\ ~ZeroFlag(status)

\* the program [0xAA, 0x00] is at 0x8000
TaxProgramLoaded ==
    /\ Cell(memory, RomBase) = OpTAX
    /\ Cell(memory, RomBase + 1) = OpBRK

\* C10: after load and reset, with register_a assigned v, run of
\* [0xAA, 0x00] returns with register_x = v, register_a = v, Zero iff v = 0
\* and Negative iff v >= 0x80, whatever register_x and status were.
C10_Tax ==
    (mode = "idle" /\ EnteredAtReset /\ last.op = "run" /\ TaxProgramLoaded) =>
        /\ retired = "BRK"
        /\ register_x = entry.a
        /\ register_a = entry.a
        /\ FlagsOf(status, entry.a)

\* such a run, entered with register_a = 0xFF and another register_x
C10_Witness ==
    /\ mode = "idle"
    /\ EnteredAtReset
    /\ last.op = "run"
    /\ TaxProgramLoaded
    /\ entry.a = ByteMod - 1
    /\ entry.x \notin {0, entry.a}
    /\ register_x = entry.a

\* The number of 0xE8 bytes from pc to the 0x00 that follows them, and -1
\* when another byte or the end of memory comes first.
RECURSIVE InxCount(_, _)
InxCount(m, pc) ==
    IF pc >= MemLen THEN -1
    ELSE IF Cell(m, pc) = OpBRK THEN 0
    ELSE IF Cell(m, pc) = OpINX
         THEN (IF InxCount(m, pc + 1) < 0 THEN -1 ELSE 1 + InxCount(m, pc + 1))
    ELSE -1

\* C11: with register_x assigned x after load and reset, run of n bytes 0xE8
\* followed by 0x00 returns with register_x = (x + n) mod 256 and register_a
\* as it was; after at least one INX the flags are those of register_x, so
\* that x = 0xFF and n = 1 give 0 with Zero set and Negative clear, and
\* n = 2 gives 1.
C11_InxWraps ==
    (/\ last.op = "run"
     /\ EnteredAtReset
     /\ InxCount(memory, RomBase) >= 0) =>
        /\ mode # "panicked"
        /\ mode = "idle" =>
              /\ retired = "BRK"
              /\ register_x = (entry.x + InxCount(memory, RomBase)) % ByteMod
              /\ register_a = entry.a
              /\ InxCount(memory, RomBase) > 0 => FlagsOf(status, register_x)
              /\ (entry.x = ByteMod - 1 /\ InxCount(memory, RomBase) = 1) =>
                     register_x = 0 /\ ZeroFlag(status) /\ ~NegativeFlag(status)

\* the run of [0xE8, 0xE8, 0x00] entered with register_x = 0xFF has returned
\* with register_x = 1
C11_Witness ==
    /\ last.op = "run"
    /\ EnteredAtReset
    /\ mode = "idle"
    /\ InxCount(memory, RomBase) = 2
    /\ entry.x = ByteMod - 1
    /\ register_x = 1

\* the program of test_5_ops with the byte v as the operand of its LDA
FiveOps(v) == Vec(<<OpLDA, v, OpTAX, OpINX, OpBRK>>)

\* C12: for every byte v, load_and_run([0xA9, v, 0xAA, 0xE8, 0x00]) on a new
\* core does not panic, comes to the 0x00 at 0x8004 from every instruction
\* on its way, and returns with register_a = v, register_x = (v + 1) mod 256
\* and the flags of register_x.
C12_LdaTaxInx ==
    (/\ last.op = "load_and_run"
     /\ last.program = FiveOps(ByteAt(last.program, 1))) =>
        /\ mode # "panicked"
        /\ mode = "running" => BrkFrom(memory, program_counter) = RomBase + 4
        /\ mode = "idle" =>
              /\ retired = "BRK"
              /\ register_a = ByteAt(last.program, 1)
              /\ register_x = (ByteAt(last.program, 1) + 1) % ByteMod
              /\ FlagsOf(status, register_x)
              /\ ByteAt(last.program, 1) = 192 => register_x = 193

\* load_and_run([0xA9, 0xFF, 0xAA, 0xE8, 0x00]) has returned with register_x
\* wrapped to 0
C12_Witness ==
    /\ last.op = "load_and_run"
    /\ last.program = FiveOps(ByteMod - 1)
    /\ mode = "idle"
    /\ register_a = ByteMod - 1
    /\ register_x = 0

\* C13: a call of load that returns leaves register_a, register_x, status
\* and program_counter as they were before the call, whatever they were and
\* whatever program it accepted.
C13_LoadKeepsRegisters ==
    [][(LoadStep /\ mode' = "idle") => regs' = regs]_vars

\* load has returned on a core whose register_a, status and program_counter
\* were all away from their values after new and after reset
C13_Witness ==
    /\ last.op = "load"
    /\ mode = "idle"
    /\ loaded
    /\ register_a # 0
    /\ status # 0
    /\ program_counter \notin {0, RomBase}

\* C14: a call of mem_write_u16(pos, data) that panics, because pos or
\* pos + 1 is outside the memory, has not changed any byte of the memory;
\* the low byte is not left at pos when the write at pos + 1 panics.
C14_NoPartialWrite16 ==
    [][(/\ mode = "idle"
        /\ last'.op = "mem_write_u16"
        /\ budget'.mems < budget.mems
        /\ mode' = "panicked") => memory' = memory]_vars

\* C15: every address from 0x0000 to 0xFFFF is in the memory: a call of
\* mem_write(addr, data) returns, and the byte read at addr is then data.
C15_AllAddressable ==
    last.op = "mem_write" =>
        /\ mode = "idle"
        /\ mem_read(memory, last.pos).ok
        /\ mem_read(memory, last.pos).val = last.data

\* the number of bytes of the instruction with the opcode op: the arm of
\* 0xA9 reads an operand, the other arms read nothing
InstrLen(op) == IF op = OpLDA THEN 2 ELSE 1

\* pc is the address of an opcode or the address behind the last
\* instruction, when the instructions are laid out from start
RECURSIVE OnBoundary(_, _, _)
OnBoundary(m, start, pc) ==
    \/ start = pc
    \/ /\ start < pc
       /\ start < MemLen
       /\ Cell(m, start) \in {OpLDA, OpTAX, OpINX}
       /\ OnBoundary(m, start + InstrLen(Cell(m, start)), pc)

\* an iteration of the loop of run that neither panics nor finds the
\* program counter outside the memory
RetireStep == mode = "running" /\ Fetched.ok /\ mode' # "panicked"

\* C16: every instruction the loop of run retires advances program_counter
\* by its length, 2 for LDA and 1 for TAX, INX and BRK; every fetch of an
\* opcode is at an instruction boundary counted from the address the loop
\* was entered at, so the operand of an LDA is never the opcode of an
\* iteration: [0xA9, 0x00, 0xE8, 0x00] does not return at the operand but
\* executes the INX and returns at 0x8003.
C16_FetchSequencing ==
    /\ [][RetireStep =>
            program_counter' = program_counter + InstrLen(Fetched.val)]_vars
    /\ [](mode = "running" =>
            OnBoundary(memory, entry.pc, program_counter))
    /\ []((/\ mode = "idle"
           /\ EnteredAtReset
           /\ \A i \in 0..3 :
                  Cell(memory, RomBase + i) = ByteAt(ZeroOperandProgram, i)) =>
              /\ retired = "BRK"
              /\ program_counter = RomBase + 4
              /\ register_a = 0
              /\ register_x = (entry.x + 1) % ByteMod)

\* the run of [0xA9, 0x00, 0xE8, 0x00] has gone over the operand 0x00 and
\* returned behind the INX
C16_Witness ==
    /\ mode = "idle"
    /\ EnteredAtReset
    /\ last.op = "run"
    /\ \A i \in 0..3 : Cell(memory, RomBase + i) = ByteAt(ZeroOperandProgram, i)
    /\ retired = "BRK"
    /\ program_counter = RomBase + 4
    /\ register_x = (entry.x + 1) % ByteMod

\* C17: the loop of run, entered with any registers over any memory, comes
\* to an end: it returns, and then at a 0x00, or it panics, at a byte that
\* has no arm or at a fetch outside the memory. It cannot go on for ever,
\* because every iteration whose fetch is inside the memory leaves
\* program_counter above where it found it.
C17_RunTerminates ==
    /\ (mode = "running") ~> (mode # "running")
    /\ [][(mode = "running" /\ Fetched.ok) =>
             program_counter' > program_counter]_vars
    /\ []((LoopEntered /\ mode = "idle") => retired = "BRK")
    /\ []((LoopEntered /\ mode = "panicked") =>
             \/ panic = TodoPanic /\
                FaultOpcode \notin {OpLDA, OpTAX, OpINX, OpBRK}
             \/ panic = IndexPanic(MemLen) /\ program_counter = MemLen)

\* a run has executed INX up to the last byte of the memory and panicked at
\* the fetch behind it
C17_Witness ==
    /\ last.op = "run"
    /\ mode = "panicked"
    /\ panic = IndexPanic(MemLen)
    /\ retired = "INX"
    /\ program_counter = MemLen

\* the call of run: the step that enters its loop from a caller
RunCalled == mode = "idle" /\ mode' = "running" /\ last'.op = "run"

\* C18: run does not write the memory: neither the call that enters the loop
\* nor any iteration of the loop, whether it executes an instruction,
\* returns or panics, changes a byte.
C18_RunKeepsMemory ==
    [][(RunCalled \/ mode = "running") => memory' = memory]_vars

\* a run over a loaded program has executed an LDA that changed register_a
\* and has returned
C18_Witness ==
    /\ last.op = "run"
    /\ mode = "idle"
    /\ loaded
    /\ retired = "BRK"
    /\ register_a # entry.a
    /\ memory # ZeroMemory

\* From pc, fetching comes to a 0x00 through LDA, TAX and INX alone, with
\* every opcode and operand below end.
RECURSIVE BrkInside(_, _, _)
BrkInside(m, pc, end) ==
    /\ pc < end
    /\ \/ Cell(m, pc) = OpBRK
       \/ Cell(m, pc) = OpLDA /\ pc + 1 < end /\ BrkInside(m, pc + 2, end)
       \/ Cell(m, pc) \in {OpTAX, OpINX} /\ BrkInside(m, pc + 1, end)

\* the memory of a new core after load(program)
NewCoreImage(program) == load(ZeroMemory, program).mem

\* the program comes to a 0x00 among its own bytes
HaltsInside(program) ==
    /\ program.len <= RomCapacity
    /\ BrkInside(NewCoreImage(program), RomBase, RomBase + program.len)

\* The registers with which the loop of run returns when it is entered with
\* the registers r over the memory m, where it comes to a 0x00.
RECURSIVE RunFrom(_, _)
RunFrom(m, r) ==
    LET op == Cell(m, r.pc)
        param == Cell(m, r.pc + 1)
        x == (r.x + 1) % ByteMod
    IN  IF op = OpLDA
        THEN RunFrom(m, Registers(param, r.x,
                        update_zero_and_negative_flags(r.status, param),
                        r.pc + 2))
        ELSE IF op = OpTAX
        THEN RunFrom(m, Registers(r.a, r.a,
                        update_zero_and_negative_flags(r.status, r.a),
                        r.pc + 1))
        ELSE IF op = OpINX
        THEN RunFrom(m, Registers(r.a, x,
                        update_zero_and_negative_flags(r.status, x),
                        r.pc + 1))
        ELSE Registers(r.a, r.x, r.status, r.pc + 1)

\* the registers after load_and_run(program) on a new core
NewCoreResult(program) ==
    RunFrom(NewCoreImage(program), Registers(0, 0, 0, RomBase))

\* C19: when load_and_run(program) has returned, for a program that comes to
\* a 0x00 among its own bytes, the registers are those that the same call
\* leaves on a new core, whatever the registers and the memory were before
\* the call, such as those left by an earlier load_and_run of a longer
\* program.
C19_ResultIndependentOfPast ==
    (last.op = "load_and_run" /\ HaltsInside(last.program)) =>
        /\ mode # "panicked"
        /\ mode = "idle" =>
              Registers(register_a, register_x, status, program_counter)
                  = NewCoreResult(last.program)

\* a later load_and_run, of a program shorter than the image an earlier
\* call left in the memory, has returned with bytes of that image still
\* behind the program
C19_Witness ==
    /\ last.op = "load_and_run"
    /\ HaltsInside(last.program)
    /\ mode = "idle"
    /\ budget.loads = 0
    /\ Cell(memory, RomBase + last.program.len) # 0
    /\ register_a # 0
    /\ Registers(register_a, register_x, status, program_counter)
           = NewCoreResult(last.program)

\* C20: right after an LDA, a TAX or an INX, Zero and Negative are not both
\* set, whatever the status was before the instruction: the byte the flags
\* are computed from is not 0 and 0x80 or above at once.
C20_ZeroNegativeExclusive ==
    retired \in {"LDA", "TAX", "INX"} =>
        ~(ZeroFlag(status) /\ NegativeFlag(status))

\* a loop entered with both flags set has retired an instruction whose
\* result 0 left Zero set and cleared Negative
C20_Witness ==
    /\ LoopEntered
    /\ ZeroFlag(entry.status)
    /\ NegativeFlag(entry.status)
    /\ retired \in {"LDA", "TAX", "INX"}
    /\ ZeroFlag(status)
    /\ ~NegativeFlag(status)

====
